---- MODULE Spec2Model ----
\* Model of pylibs/dynomite/thrift_client.py: class Client, a facade over the
\* generated Dynomite thrift client that keeps one connection per calling
\* thread in a threading.local() and forwards get/put/has/remove.
EXTENDS Integers, Sequences, FiniteSets, TLC

VARIABLES
    host,       \* self._host
    port,       \* self._port
    slot,       \* self._con as seen by each thread: the attributes client, transport
    tstate,     \* every transport object created so far, in creation order
    reachable,  \* whether (host, port) currently accepts connections
    alive,      \* FALSE once __del__ has run
    watch,      \* the thread whose calls are being recorded in hist
    hist,       \* the facade calls the watched thread has made so far (bounded)
    last        \* the facade call that was made last and what it did

vars == <<host, port, slot, tstate, reachable, alive, watch, hist, last>>

\* ---------------------------------------------------------------- bounds
MaxTransports == 3
HistLen == 3

\* ---------------------------------------------------------------- inputs
Threads == {"T1", "T2"}
Hosts == {"localhost"}
Ports == {9191}
Keys == {"k"}
Values == {"v"}
Contexts == {"c"}
Omitted == "<omitted>"
Results == {"0", "1"}
RemoteErrors == {"InvalidKey"}
ConnectError == "TTransportException(open)"
SendError == "TTransportException(io)"
AttributeError == "AttributeError"
RpcOps == {"get", "put", "has", "remove"}

\* ---------------------------------------------------------------- state
NoAttr == 0
EmptyCon == [client |-> NoAttr, transport |-> NoAttr]
NoReply == [kind |-> "none", val |-> "none"]
Idle == [op |-> "idle", t |-> "none", args |-> <<>>, sent |-> <<>>,
         reply |-> NoReply, out |-> NoReply, closed |-> <<>>]

Return(v) == [kind |-> "return", val |-> v]
Raise(e) == [kind |-> "raise", val |-> e]

\* variant: _con is an ordinary object shared by all threads
OwnerShared(t) == "T1"

\* threading.local(): the attribute namespace a thread sees is its own
Owner(t) == t

hasattr(s, t, name) ==
    IF name = "client" THEN s[Owner(t)].client # NoAttr
    ELSE s[Owner(t)].transport # NoAttr

\* number of transports thread t has created (one per connection attempt)
attempts(ts, t) == Cardinality({i \in 1..Len(ts) : ts[i].by = t})

\* transport.open(): succeeds iff the target accepts the connection
open(net) == IF net THEN "open" ELSE "unopened"

\* variant: a transport made for the port after the one given
TSocketNextPort(t, h, p, st) == [by |-> t, to |-> <<h, p + 1>>, st |-> st]

\* TSocket.TSocket(host, port) under TBufferedTransport: a transport object,
\* with the thread that created it and the state open() left it in
TSocket(t, h, p, st) == [by |-> t, to |-> <<h, p>>, st |-> st]

\* variant: connect() without the hasattr guard, connecting on every call
connectAlways(s, ts, t, net) ==
    LET id == Len(ts) + 1
        s1 == [s EXCEPT ![Owner(t)] = [client |-> id, transport |-> id]]
        ts1 == Append(ts, TSocket(t, host, port, open(net)))
    IN  [slot |-> s1, tstate |-> ts1,
         err |-> IF net THEN "none" ELSE ConnectError]

\* variant: connect() whose guard looks at the transport's state as well
connectIfClosed(s, ts, t, net) ==
    IF hasattr(s, t, "client") /\ ts[s[Owner(t)].transport].st = "open"
    THEN [slot |-> s, tstate |-> ts, err |-> "none"]
    ELSE LET id == Len(ts) + 1
             s1 == [s EXCEPT ![Owner(t)] = [client |-> id, transport |-> id]]
             ts1 == Append(ts, TSocket(t, host, port, open(net)))
         IN  [slot |-> s1, tstate |-> ts1,
              err |-> IF net THEN "none" ELSE ConnectError]

\* variant: connect() that tries open() a second time when it fails
connectRetry(s, ts, t, net) ==
    IF hasattr(s, t, "client")
    THEN [slot |-> s, tstate |-> ts, err |-> "none"]
    ELSE LET first == Append(ts, TSocket(t, host, port, open(net)))
             ts1 == IF net THEN first ELSE Append(first, TSocket(t, host, port, open(net)))
             id == Len(ts1)
             s1 == [s EXCEPT ![Owner(t)] = [client |-> id, transport |-> id]]
         IN  [slot |-> s1, tstate |-> ts1,
              err |-> IF net THEN "none" ELSE ConnectError]

\* variant: connect() that records the transport only after open() returned
connectOpenFirst(s, ts, t, net) ==
    IF hasattr(s, t, "client")
    THEN [slot |-> s, tstate |-> ts, err |-> "none"]
    ELSE LET id == Len(ts) + 1
             s1 == [s EXCEPT ![Owner(t)] =
                       [client |-> id, transport |-> IF net THEN id ELSE NoAttr]]
             ts1 == Append(ts, TSocket(t, host, port, open(net)))
         IN  [slot |-> s1, tstate |-> ts1,
              err |-> IF net THEN "none" ELSE ConnectError]

\* Client.connect
connect(s, ts, t, net) ==
    IF hasattr(s, t, "client")
    THEN [slot |-> s, tstate |-> ts, err |-> "none"]
    ELSE LET id == Len(ts) + 1
             s1 == [s EXCEPT ![Owner(t)] = [client |-> id, transport |-> id]]
             ts1 == Append(ts, TSocket(t, host, port, open(net)))
         IN  [slot |-> s1, tstate |-> ts1,
              err |-> IF net THEN "none" ELSE ConnectError]

\* variant: close() that shuts every transport of the process
closeAll(ts, id) ==
    [i \in 1..Len(ts) |-> [ts[i] EXCEPT !.st = IF @ = "unopened" THEN @ ELSE "closed"]]

\* transport.close(): drops the handle if there is one; a transport whose
\* open() failed has none and stays as it is
close(ts, id) == [ts EXCEPT ![id].st = IF @ = "unopened" THEN @ ELSE "closed"]

\* variant: disconnect() that does nothing when the thread has no transport
disconnectLenient(s, ts, t) ==
    IF ~hasattr(s, t, "transport")
    THEN [tstate |-> ts, err |-> "none", closed |-> <<>>]
    ELSE LET id == s[Owner(t)].transport
         IN  [tstate |-> close(ts, id), err |-> "none", closed |-> <<id>>]

\* Client.disconnect
disconnect(s, ts, t) ==
    IF ~hasattr(s, t, "transport")
    THEN [tstate |-> ts, err |-> AttributeError, closed |-> <<>>]
    ELSE LET id == s[Owner(t)].transport
         IN  [tstate |-> close(ts, id), err |-> "none", closed |-> <<id>>]

\* what the generated client's call ends in, given the state of its transport
RepliesOn(st) ==
    IF st = "open"
    THEN {Return(r) : r \in Results} \cup {Raise(e) : e \in RemoteErrors}
    ELSE {Raise(SendError)}

\* variant: the facade swallows the client's exception and returns None
ForwardSuppress(reply) == IF reply.kind = "raise" THEN [kind |-> "return", val |-> "None"] ELSE reply

\* `return self._con.client.<method>(...)`: result or exception as is
Forward(reply) == reply

\* the context parameter's default
DefaultContext == ""
ContextOf(ctx) == IF ctx = Omitted THEN DefaultContext ELSE ctx

\* argument lists handed to the generated client
KeyArgs(key) == <<key>>
\* variant: put passing value and context in the facade's own order
PutArgsSwapped(key, value, context) == <<key, value, context>>
PutArgs(key, value, context) == <<key, context, value>>

Push(h, op) == IF h = <<"more">> \/ Len(h) >= HistLen THEN <<"more">> ELSE Append(h, op)
Record(t, op) ==
    /\ hist' = IF t = watch THEN Push(hist, op) ELSE hist
    /\ UNCHANGED watch

CanConnect(t) == hasattr(slot, t, "client") \/ Len(tstate) < MaxTransports

\* Client.__init__
Init ==
    /\ host \in Hosts
    /\ port \in Ports
    /\ slot = [t \in Threads |-> EmptyCon]
    /\ tstate = <<>>
    /\ reachable \in BOOLEAN
    /\ alive = TRUE
    /\ watch \in Threads
    /\ hist = <<>>
    /\ last = Idle

Connect(t) ==
    /\ alive
    /\ CanConnect(t)
    /\ LET c == connect(slot, tstate, t, reachable)
       IN  /\ slot' = c.slot
           /\ tstate' = c.tstate
           /\ last' = [Idle EXCEPT !.op = "connect", !.t = t,
                          !.out = IF c.err = "none" THEN Return("None") ELSE Raise(c.err)]
    /\ Record(t, "connect")
    /\ UNCHANGED <<host, port, reachable, alive>>

Disconnect(t) ==
    /\ alive
    /\ LET d == disconnect(slot, tstate, t)
       IN  /\ tstate' = d.tstate
           /\ last' = [Idle EXCEPT !.op = "disconnect", !.t = t, !.closed = d.closed,
                          !.out = IF d.err = "none" THEN Return("None") ELSE Raise(d.err)]
    /\ Record(t, "disconnect")
    /\ UNCHANGED <<host, port, slot, reachable, alive>>

\* the common shape of get/put/has/remove: connect(), then the client call
Call(t, method, args, rargs) ==
    /\ alive
    /\ CanConnect(t)
    /\ LET c == connect(slot, tstate, t, reachable)
       IN  /\ slot' = c.slot
           /\ tstate' = c.tstate
           /\ IF c.err # "none"
              THEN last' = [Idle EXCEPT !.op = method, !.t = t, !.args = args,
                               !.out = Raise(c.err)]
              ELSE LET id == c.slot[Owner(t)].client
                   IN  \E reply \in RepliesOn(c.tstate[id].st) :
                         last' = [Idle EXCEPT !.op = method, !.t = t, !.args = args,
                                     !.sent = <<[method |-> method, args |-> rargs, via |-> id]>>,
                                     !.reply = reply,
                                     !.out = Forward(reply)]
    /\ Record(t, "rpc")
    /\ UNCHANGED <<host, port, reachable, alive>>

Get(t) == \E key \in Keys : Call(t, "get", <<key>>, KeyArgs(key))

Put(t) ==
    \E key \in Keys, value \in Values, ctx \in Contexts \cup {Omitted} :
        Call(t, "put", <<key, value, ctx>>, PutArgs(key, value, ContextOf(ctx)))

Has(t) == \E key \in Keys : Call(t, "has", <<key>>, KeyArgs(key))

Remove(t) == \E key \in Keys : Call(t, "remove", <<key>>, KeyArgs(key))

\* Client.__del__, run by the thread that drops the last reference
Teardown(t) ==
    /\ alive
    /\ alive' = FALSE
    /\ LET d == disconnect(slot, tstate, t)
       IN  /\ tstate' = d.tstate
           /\ last' = [Idle EXCEPT !.op = "teardown", !.t = t, !.closed = d.closed,
                          !.out = IF d.err = "none" THEN Return("None") ELSE Raise(d.err)]
    /\ Record(t, "teardown")
    /\ UNCHANGED <<host, port, slot, reachable>>

\* environment: the target starts or stops accepting connections
NetChange ==
    /\ alive
    /\ reachable' = ~reachable
    /\ last' = Idle
    /\ UNCHANGED <<host, port, slot, tstate, alive, watch, hist>>

\* environment: the remote side drops an established connection
RemoteBreak ==
    /\ alive
    /\ \E id \in 1..Len(tstate) :
         /\ tstate[id].st = "open"
         /\ tstate' = [tstate EXCEPT ![id].st = "broken"]
    /\ last' = Idle
    /\ UNCHANGED <<host, port, slot, reachable, alive, watch, hist>>

Next ==
    \/ \E t \in Threads : Connect(t)
    \/ \E t \in Threads : Disconnect(t)
    \/ \E t \in Threads : Get(t)
    \/ \E t \in Threads : Put(t)
    \/ \E t \in Threads : Has(t)
    \/ \E t \in Threads : Remove(t)
    \/ \E t \in Threads : Teardown(t)
    \/ NetChange
    \/ RemoteBreak

Spec == Init /\ [][Next]_vars

\* ---------------------------------------------------------------- properties
Att(t) == attempts(tstate, t)
HasEntry(t) == slot[t] # EmptyCon
\* TSocket.isOpen(): the local handle exists (also when the peer has gone)
IsOpen(st) == st \in {"open", "broken"}
IsCallBy(r, t) == r.t = t /\ r.op \in RpcOps
OnlyRpcs(h) == h # <<>> /\ \A i \in 1..Len(h) : h[i] = "rpc"
OthersUntouched(t) ==
    /\ \A u \in Threads \ {t} : slot'[u] = slot[u]
    /\ \A i \in 1..Len(tstate) : tstate[i].by # t => tstate'[i] = tstate[i]

\* C1: after connect, disconnect and then one of get/put/has/remove on one
\* thread whose connection attempts all succeeded, that thread has made
\* exactly 2 connection attempts, and the call after the disconnect() was
\* not issued on the connection that disconnect() closed.
C1_ReconnectAfterDisconnect ==
    (/\ hist = <<"connect", "disconnect", "rpc">>
     /\ \A i \in 1..Len(tstate) : tstate[i].by = watch => tstate[i].st # "unopened") =>
        /\ Att(watch) = 2
        /\ (last.t = watch /\ last.sent # <<>> => tstate[last.sent[1].via].st # "closed")

\* C2: a call whose connection attempt failed leaves the calling thread's
\* slot without an entry, and a connect() made next by that thread while the
\* target is reachable makes a fresh attempt that succeeds.
C2_FailureLeavesSlotEmpty ==
    /\ [](last.out = Raise(ConnectError) => ~HasEntry(last.t))
    /\ [][\A t \in Threads :
            (last.t = t /\ last.out = Raise(ConnectError) /\ reachable
               /\ last'.op = "connect" /\ last'.t = t)
            => /\ last'.out = Return("None")
               /\ attempts(tstate', t) = Att(t) + 1
               /\ tstate'[slot'[t].transport].st = "open"]_vars

\* C3: every thread's slot holds no entry, or holds one entry (client and
\* transport) whose transport is open.
C3_SlotInvariant ==
    \A t \in Threads :
        \/ slot[t] = EmptyCon
        \/ /\ slot[t].client # NoAttr
           /\ slot[t].transport # NoAttr
           /\ IsOpen(tstate[slot[t].transport].st)

\* C4: connect() from a thread without an entry makes exactly one connection
\* attempt (one established connection when the target is reachable) and
\* writes the thread's slot; connect() from a thread that has an entry makes
\* no attempt and leaves the slot as it is.
C4_ConnectIdempotent ==
    [][\A t \in Threads :
        (last'.op = "connect" /\ last'.t = t) =>
            IF ~HasEntry(t)
            THEN /\ Len(tstate') = Len(tstate) + 1
                 /\ attempts(tstate', t) = Att(t) + 1
                 /\ slot'[t] = [client |-> Len(tstate'), transport |-> Len(tstate')]
                 /\ (reachable => tstate'[Len(tstate')].st = "open")
                 /\ (hist = <<>> /\ t = watch => attempts(tstate', t) = 1)
            ELSE /\ tstate' = tstate
                 /\ slot' = slot]_vars

C4_Witness ==
    /\ hist = <<"connect", "connect">>
    /\ last.op = "connect" /\ last.t = watch
    /\ Att(watch) = 1
    /\ tstate[slot[watch].transport].st = "open"

\* C5: a facade call by thread t changes no other thread's slot and no
\* transport created by another thread, and the remote call it issues goes
\* over the client recorded in t's own slot, on a transport t created.
C5_ThreadIsolation ==
    [][\A t \in Threads :
        (last'.t = t /\ last'.op # "idle") =>
            /\ OthersUntouched(t)
            /\ (last'.sent # <<>> =>
                   /\ last'.sent[1].via = slot'[t].client
                   /\ tstate'[last'.sent[1].via].by = t)]_vars

C5_Witness ==
    \E t \in Threads, u \in Threads :
        /\ t # u
        /\ last.op = "disconnect" /\ last.t = t /\ last.closed # <<>>
        /\ HasEntry(u)
        /\ tstate[slot[u].transport].st = "open"

\* C6: a thread that has so far made only get/put/has/remove calls has made
\* exactly one connection attempt, its slot refers to that transport, and
\* every call it issued went over it (only a first call whose connection
\* attempt failed issues nothing).
C6_LazySingleConnection ==
    OnlyRpcs(hist) =>
        /\ Att(watch) = 1
        /\ HasEntry(watch)
        /\ slot[watch].client = slot[watch].transport
        /\ tstate[slot[watch].transport].by = watch
        /\ (IsCallBy(last, watch) =>
               IF last.sent = <<>>
               THEN hist = <<"rpc">> /\ last.out = Raise(ConnectError)
               ELSE last.sent[1].via = slot[watch].client)

C6_Witness ==
    /\ hist = <<"rpc", "rpc", "rpc">>
    /\ IsCallBy(last, watch)
    /\ last.out.kind = "return"
    /\ Att(watch) = 1

\* C7: put(key, value, context) issues one remote put with the arguments
\* (key, context, value), the context being "" when omitted, and returns the
\* remote call's result as it is; it issues none only when connect() raised.
C7_PutArgumentOrder ==
    last.op = "put" =>
        \/ last.sent = <<>> /\ last.out = Raise(ConnectError)
        \/ /\ Len(last.sent) = 1
           /\ last.sent[1].method = "put"
           /\ last.sent[1].args =
                 <<last.args[1], IF last.args[3] = Omitted THEN "" ELSE last.args[3], last.args[2]>>
           /\ last.out = last.reply

C7_Witness ==
    /\ last.op = "put"
    /\ last.args = <<"k", "v", "c">>
    /\ last.sent # <<>>
    /\ last.out.kind = "return"

\* C8: when the remote call raises a remote error, the facade call raises
\* that error after a single remote call, a thread that had an entry keeps
\* its slot and every transport as they were, and the next call of that
\* thread goes over the same connection without a connection attempt.
C8_RemoteFailureTransparent ==
    [][\A t \in Threads :
        /\ (IsCallBy(last', t) /\ last'.reply.kind = "raise" /\ last'.reply.val \in RemoteErrors) =>
              /\ last'.out = last'.reply
              /\ Len(last'.sent) = 1
              /\ HasEntry(t)'
              /\ tstate'[slot'[t].transport].st = "open"
              /\ (HasEntry(t) => slot' = slot /\ tstate' = tstate)
        /\ (IsCallBy(last, t) /\ last.reply.kind = "raise" /\ last.reply.val \in RemoteErrors
              /\ IsCallBy(last', t)) =>
              /\ tstate' = tstate
              /\ slot' = slot
              /\ Len(last'.sent) = 1
              /\ last'.sent[1].via = last.sent[1].via]_vars

C8_Witness ==
    /\ last.op = "remove"
    /\ last.reply = Raise("InvalidKey")
    /\ last.out = Raise("InvalidKey")
    /\ tstate[slot[last.t].transport].st = "open"

\* C9: disconnect() from a thread whose slot has no entry raises an error,
\* closes no transport and changes no slot.
C9_DisconnectWithoutConnection ==
    [][\A t \in Threads :
        (last'.op = "disconnect" /\ last'.t = t /\ ~HasEntry(t)) =>
            /\ last'.out = Raise(AttributeError)
            /\ last'.closed = <<>>
            /\ tstate' = tstate
            /\ slot' = slot]_vars

C9_Witness ==
    /\ last.op = "disconnect"
    /\ last.out = Raise(AttributeError)
    /\ ~HasEntry(last.t)
    /\ \E u \in Threads : HasEntry(u) /\ tstate[slot[u].transport].st = "open"

\* C10: teardown on thread t runs disconnect once for t: it closes t's
\* recorded transport if t has one, and leaves every slot and every other
\* transport as it was.
C10_TeardownOwnThreadOnly ==
    [][\A t \in Threads :
        (last'.op = "teardown" /\ last'.t = t) =>
            /\ slot' = slot
            /\ IF HasEntry(t)
               THEN /\ last'.closed = <<slot[t].transport>>
                    /\ ~IsOpen(tstate'[slot[t].transport].st)
                    /\ \A i \in 1..Len(tstate) : i # slot[t].transport => tstate'[i] = tstate[i]
               ELSE /\ last'.closed = <<>>
                    /\ last'.out = Raise(AttributeError)
                    /\ tstate' = tstate
            /\ OthersUntouched(t)]_vars

C10_Witness ==
    \E t \in Threads, u \in Threads :
        /\ t # u
        /\ last.op = "teardown" /\ last.t = t
        /\ last.closed = <<slot[t].transport>>
        /\ tstate[slot[t].transport].st = "closed"
        /\ HasEntry(u)
        /\ tstate[slot[u].transport].st = "open"

\* C11: whenever get, put, has or remove has issued its remote call for
\* thread t, t's slot holds an entry whose transport is open.
C11_ForwardOnlyWhenOpen ==
    (last.op \in RpcOps /\ last.sent # <<>>) =>
        /\ HasEntry(last.t)
        /\ slot[last.t].transport # NoAttr
        /\ IsOpen(tstate[slot[last.t].transport].st)

\* C12: one invocation of get, put, has or remove makes at most one
\* connection attempt and issues at most one remote call; when its
\* connection attempt fails it raises that connection error and issues no
\* remote call.
C12_NoAutomaticRetry ==
    [][\A t \in Threads :
        IsCallBy(last', t) =>
            /\ attempts(tstate', t) <= Att(t) + 1
            /\ Len(tstate') <= Len(tstate) + 1
            /\ Len(last'.sent) <= 1
            /\ (Len(tstate') > Len(tstate) /\ tstate'[Len(tstate')].st = "unopened" =>
                   /\ last'.out = Raise(ConnectError)
                   /\ last'.sent = <<>>)
            /\ (last'.out = Raise(ConnectError) =>
                   /\ last'.sent = <<>>
                   /\ attempts(tstate', t) = Att(t) + 1)]_vars

C12_Witness ==
    /\ last.op \in RpcOps
    /\ last.out = Raise(ConnectError)
    /\ last.sent = <<>>
    /\ Att(last.t) = 1
    /\ tstate[slot[last.t].transport].st = "unopened"

\* C13: connect() from a thread that has an entry changes nothing, whatever
\* the state of the recorded transport; when the recorded connection has
\* been broken by the remote side, a call of that thread is issued on that
\* same transport and fails, and no step replaces the entry or makes a new
\* connection attempt for that thread.
C13_NoHealthCheck ==
    [][\A t \in Threads :
        /\ (last'.op = "connect" /\ last'.t = t /\ HasEntry(t)) =>
              /\ slot' = slot
              /\ tstate' = tstate
              /\ last'.out = Return("None")
        /\ (HasEntry(t) /\ tstate[slot[t].transport].st = "broken") =>
              /\ slot'[t] = slot[t]
              /\ attempts(tstate', t) = Att(t)
              /\ (IsCallBy(last', t) =>
                     /\ last'.sent # <<>>
                     /\ last'.sent[1].via = slot[t].client
                     /\ last'.reply = Raise(SendError)
                     /\ last'.out = Raise(SendError)
                     /\ tstate' = tstate)]_vars

C13_Witness ==
    /\ hist = <<"rpc", "connect", "rpc">>
    /\ IsCallBy(last, watch)
    /\ last.out = Raise(SendError)
    /\ tstate[slot[watch].transport].st = "broken"
    /\ Att(watch) = 1

\* C14: no step changes the facade's host or port, and every transport ever
\* created targets the (host, port) the facade was constructed with.
C14_HostPortImmutable ==
    /\ [](\A i \in 1..Len(tstate) : tstate[i].to = <<host, port>>)
    /\ [][/\ host' = host
          /\ port' = port
          /\ \A i \in (Len(tstate) + 1)..Len(tstate') : tstate'[i].to = <<host, port>>
          /\ \A i \in 1..Len(tstate) : tstate'[i].to = tstate[i].to]_vars

C14_Witness ==
    /\ ~alive
    /\ Len(tstate) = 2
    /\ tstate[1].by # tstate[2].by
    /\ \A i \in 1..2 : tstate[i].to = <<host, port>>
    /\ host \in Hosts /\ port \in Ports

\* C15: once a thread's slot has an entry no step removes or replaces it,
\* and no thread ever creates more than one transport (makes more than one
\* connection attempt).
C15_SlotMonotonic ==
    /\ [](\A t \in Threads : Att(t) <= 1 /\ (HasEntry(t) <=> Att(t) = 1))
    /\ [][\A t \in Threads : HasEntry(t) => slot'[t] = slot[t]]_vars

C15_Witness ==
    /\ hist = <<"connect", "disconnect", "rpc">>
    /\ IsCallBy(last, watch)
    /\ last.out = Raise(SendError)
    /\ HasEntry(watch)
    /\ tstate[slot[watch].transport].st = "closed"
    /\ Att(watch) = 1

\* C16: a thread's slot has a recorded client exactly when it has a recorded
\* transport, and the client is the one built on that transport.
C16_ClientIffTransport ==
    \A t \in Threads :
        /\ (slot[t].client # NoAttr) <=> (slot[t].transport # NoAttr)
        /\ slot[t].client = slot[t].transport

C16_Witness ==
    /\ last.op = "disconnect"
    /\ last.out = Return("None")
    /\ slot[last.t].client # NoAttr
    /\ slot[last.t].transport # NoAttr
    /\ tstate[slot[last.t].transport].st = "unopened"
====
